---- MODULE Spec2Model ----
(***************************************************************************)
(* Model of the VDTE template service (src/app/routers/templates.py) over  *)
(* the tables declared in src/app/models.py.                               *)
(*                                                                         *)
(* The committed database is the pair (templates, versions).  Every HTTP   *)
(* request runs in its own SQLAlchemy session; a handler is split at its   *)
(* database round trips (each query, each commit), so that the steps of    *)
(* different requests interleave the way concurrent requests do.           *)
(* The path parameters a handler's first query uses are drawn when the      *)
(* request arrives; a value the handler reads only later (the body, the    *)
(* version id) is drawn at the step that first reads it, which leaves the  *)
(* behaviours the same.                                                    *)
(***************************************************************************)
EXTENDS Integers, Sequences, FiniteSets, TLC

\* ------------------------------------------------------------------ bounds
MaxTemplates == 2      \* template ids ever generated
MaxVersionRows == 3    \* version ids ever generated
MaxRequests == 3       \* requests ever received

\* The workers that serve requests, one request each at a time.
Clients == {"w1", "w2"}
TemplateIds == 1..MaxTemplates
VersionIds == 1..MaxVersionRows

\* ------------------------------------------------------------ input values
Users == {"alice", "bob"}
Names == {"A4"}          \* names given when a template is created
NewNames == {"Letter"}   \* names given in a metadata update
SubTypes == {<<"cover">>}

\* An Optional[...] value of Python: None, or a value.
NoneStr == [some |-> FALSE, val |-> ""]
NoneList == [some |-> FALSE, val |-> <<>>]
NoneInt == [some |-> FALSE, val |-> 0]
Some(v) == [some |-> TRUE, val |-> v]
OptNames == {NoneStr} \cup {Some(n) : n \in NewNames}
OptSubTypes == {NoneList} \cup {Some(s) : s \in SubTypes}

\* TemplateDataCreate, reduced to two of its fields: a required one and an
\* optional one.
TemplateDataCreate ==
    { [rows |-> 2, customWidth |-> NoneInt],
      [rows |-> 4, customWidth |-> NoneInt] }

\* vars(model): the dict of a Pydantic model, one key per declared field,
\* the fields the request left out included (with their default None).
vars_(model) == [f \in DOMAIN model |-> model[f]]

\* TemplateUpdate as parsed from the request body: both fields are always
\* attributes of the object, None when the body left them out.
TemplateUpdate == [name : OptNames, sub_template_types : OptSubTypes]

\* ------------------------------------------------------------------- state
VARIABLES
    templates,       \* committed rows of table "templates"
    versions,        \* committed rows of table "template_versions"
    nextTemplateId,  \* uuid4 of the next Template row (never reused)
    nextVersionId,   \* uuid4 of the next TemplateVersion row (never reused)
    req,             \* per client: the request in flight and its locals
    resp,            \* per client: the response of its last finished request
    deleted,         \* history: template ids a delete_template answered 204 for
    requests,        \* history: number of requests received
    users,           \* committed rows of table "users"
    nextUserId       \* uuid4 of the next User row (never reused)

vars == <<templates, versions, nextTemplateId, nextVersionId, req, resp, deleted,
          requests, users, nextUserId>>

\* A Template row.  sub_template_types is a JSONB value: Some(list), or the
\* JSON null (some = FALSE).
Template(id, user_id, name, sub_template_types) ==
    [id |-> id, user_id |-> user_id, name |-> name,
     sub_template_types |-> sub_template_types]

\* A TemplateVersion row.
TemplateVersion(id, template_id, version, data) ==
    [id |-> id, template_id |-> template_id, version |-> version, data |-> data]

NoData == [rows |-> 0, customWidth |-> NoneInt]

Idle ==
    [op |-> "idle", pc |-> "idle", user |-> "", tid |-> 0,
     template |-> {}, rows |-> {}, number |-> 0, result |-> {},
     cause |-> "", afterDelete |-> FALSE]

\* A response: the status code and the body's fields (detail, id, version,
\* versions, data, template), and, as history, the operation that gave it,
\* what it was asked (tid, version_id, updates), the template row it had
\* loaded (before),
\* what its lookup met (cause) and whether the template had been deleted
\* when it arrived (afterDelete).
NoResp ==
    [op |-> "none", user |-> "", tid |-> 0, version_id |-> 0, vid |-> 0,
     status |-> 0,
     detail |-> "", version |-> 0, versions |-> <<>>, data |-> NoData,
     template |-> {}, result |-> {},
     updates |-> [name |-> NoneStr, sub_template_types |-> NoneList],
     before |-> {}, cause |-> "", afterDelete |-> FALSE]

Init ==
    /\ templates = {}
    /\ versions = {}
    /\ nextTemplateId = 1
    /\ nextVersionId = 1
    /\ req = [p \in Clients |-> Idle]
    /\ resp = [p \in Clients |-> NoResp]
    /\ deleted = {}
    /\ requests = 0
    /\ users = {}
    /\ nextUserId = 1

\* ------------------------------------------------------------------ queries
\* Mutant of get_owned: the owner filter dropped.
get_by_id(template_id, user_id) ==
    {t \in templates : t.id = template_id}

\* db.query(Template).filter(Template.id == template_id,
\*                           Template.user_id == current_user.id).first()
\* as a set: empty for None, else the one row.
get_owned(template_id, user_id) ==
    {t \in templates : t.id = template_id /\ t.user_id = user_id}

\* db.query(TemplateVersion).filter(TemplateVersion.template_id == template_id)
versions_of(template_id) ==
    {v \in versions : v.template_id = template_id}

\* .order_by(TemplateVersion.version.desc()).first(): the rows the query can
\* return first (any row with the highest number); none when there is no row.
latest_versions(template_id) ==
    {v \in versions_of(template_id) :
        \A w \in versions_of(template_id) : w.version <= v.version}

\* Mutant of new_version_number: the increment forgotten.
same_version_number(latest) ==
    IF latest = {} THEN 1 ELSE (CHOOSE v \in latest : TRUE).version

\* latest_version.version + 1 if latest_version else 1
new_version_number(latest) ==
    IF latest = {} THEN 1 ELSE (CHOOSE v \in latest : TRUE).version + 1

\* Mutant of ForeignKeyOk: the column declared without its foreign key.
ForeignKeyAbsent(template_id) == TRUE

\* ForeignKey("templates.id") on template_versions.template_id: PostgreSQL
\* refuses an insert whose template row is absent.
ForeignKeyOk(template_id) ==
    \E t \in templates : t.id = template_id

\* Why the handler's lookup found nothing, or "owned" (history only).
CauseOf(template_id, user_id) ==
    IF \A t \in templates : t.id # template_id THEN "missing"
    ELSE IF \E t \in templates : t.id = template_id /\ t.user_id = user_id
         THEN "owned" ELSE "foreign"

\* ---------------------------------------------------------------- responses
Respond(p, r) ==
    /\ resp' = [resp EXCEPT ![p] = r]
    /\ req' = [req EXCEPT ![p] = Idle]

Reply(p, status, detail) ==
    [NoResp EXCEPT !.op = req[p].op, !.tid = req[p].tid,
                   !.status = status, !.detail = detail,
                   !.cause = req[p].cause, !.afterDelete = req[p].afterDelete,
                   !.before = req[p].template]

\* A request arrives: op, the authenticated user and the path/body arguments.
Arrive(p, op, user, tid) ==
    [Idle EXCEPT !.op = op, !.user = user, !.tid = tid,
                 !.cause = CauseOf(tid, user),
                 !.afterDelete = (tid \in deleted)]

\* The ownership check every handler but create_template starts with:
\* 404 when the lookup is empty, else the handler goes on at pc `next`.
Lookup(p, r, next) ==
    LET template == get_owned(r.tid, r.user) IN
    /\ req[p].pc = "idle"
    /\ requests < MaxRequests
    /\ requests' = requests + 1
    /\ IF template = {}
       THEN /\ resp' = [resp EXCEPT ![p] =
                   [NoResp EXCEPT !.op = r.op, !.status = 404,
                                  !.detail = "Template not found",
                                  !.cause = r.cause,
                                  !.afterDelete = r.afterDelete]]
            /\ req' = [req EXCEPT ![p] = Idle]
       ELSE /\ req' = [req EXCEPT ![p] = [r EXCEPT !.pc = next, !.template = template]]
            /\ resp' = [resp EXCEPT ![p] = NoResp]

\* ---------------------------------------------------------- create_template
\* Requests in flight that will still insert a TemplateVersion row.
PendingInserts ==
    Cardinality({q \in Clients : req[q].op \in {"create_template", "add_version"}})

\* Model bound: a request that inserts a version row is only let in while a
\* version id is left for it.
VersionIdLeft == nextVersionId + PendingInserts <= MaxVersionRows

\* db.add(new_template); db.commit(); db.refresh(new_template)
create_template_commit(p) ==
    /\ req[p].pc = "idle"
    /\ requests < MaxRequests
    /\ requests' = requests + 1
    /\ nextTemplateId <= MaxTemplates
    /\ VersionIdLeft
    /\ \E user \in Users, name \in Names, stt \in SubTypes :
         LET new_template == Template(nextTemplateId, user, name, Some(stt)) IN
         /\ templates' = templates \cup {new_template}
         /\ req' = [req EXCEPT ![p] =
                [Idle EXCEPT !.op = "create_template", !.pc = "create_version",
                             !.user = user, !.tid = nextTemplateId,
                             !.template = {new_template}, !.cause = "owned"]]
    /\ nextTemplateId' = nextTemplateId + 1
    /\ resp' = [resp EXCEPT ![p] = NoResp]
    /\ UNCHANGED <<versions, nextVersionId, deleted,
                   users, nextUserId>>

\* Mutant of insert_version: the template's rows replaced by the new one.
replace_versions(new_version) ==
    {v \in versions : v.template_id # new_version.template_id} \cup {new_version}

\* The rows after db.add(new_version); db.commit().
insert_version(new_version) == versions \cup {new_version}

\* db.add(new_version); db.commit(); return {"id", "version": 1, "message"}
create_template_version(p) ==
    /\ req[p].pc = "create_version"
    /\ IF ForeignKeyOk(req[p].tid)
       THEN /\ \E data \in TemplateDataCreate :
                 versions' = insert_version(
                    TemplateVersion(nextVersionId, req[p].tid, 1, vars_(data)))
            /\ nextVersionId' = nextVersionId + 1
            /\ Respond(p, [Reply(p, 201, "Template created successfully")
                              EXCEPT !.version = 1])
       ELSE /\ Respond(p, Reply(p, 500, "IntegrityError"))
            /\ UNCHANGED <<versions, nextVersionId>>
    /\ UNCHANGED <<templates, nextTemplateId, deleted, requests,
                   users, nextUserId>>

\* ---------------------------------------------------------- delete_template
\* Mutant of delete_template_lookup: the version rows deleted before the
\* ownership check.
delete_before_lookup(p) ==
    /\ \E user \in Users, tid \in TemplateIds :
         /\ Lookup(p, Arrive(p, "delete_template", user, tid), "delete_query")
         /\ versions' = {v \in versions : v.template_id # tid}
    /\ UNCHANGED <<templates, nextTemplateId, nextVersionId, deleted,
                   users, nextUserId>>

delete_template_lookup(p) ==
    /\ \E user \in Users, tid \in TemplateIds :
         Lookup(p, Arrive(p, "delete_template", user, tid), "delete_query")
    /\ UNCHANGED <<templates, versions, nextTemplateId, nextVersionId, deleted,
                   users, nextUserId>>

\* template_versions = db.query(TemplateVersion).filter(...).all()
delete_template_query(p) ==
    /\ req[p].pc = "delete_query"
    /\ req' = [req EXCEPT ![p].pc = "delete_commit",
                          ![p].rows = versions_of(req[p].tid)]
    /\ UNCHANGED <<templates, versions, nextTemplateId, nextVersionId, resp, deleted, requests,
                   users, nextUserId>>

\* for template_version in template_versions: db.delete(template_version)
delete_versions(rows) == versions \ rows

\* Mutant of delete_template_row: db.delete(template) left out.
keep_template_row(template_id) == templates

\* db.delete(template)
delete_template_row(template_id) == {t \in templates : t.id # template_id}

\* The flush of db.commit(): the version rows read, then the template row.
\* The template row cannot go while a version row still references it
\* (a row committed after the query): the commit fails and is rolled back.
delete_template_commit(p) ==
    /\ req[p].pc = "delete_commit"
    /\ LET left == delete_versions(req[p].rows)
           gone == delete_template_row(req[p].tid) IN
       IF ForeignKeyOk(req[p].tid) /\ \E v \in left : v.template_id = req[p].tid
       THEN /\ Respond(p, Reply(p, 500, "IntegrityError"))
            /\ UNCHANGED <<templates, versions, deleted>>
       ELSE /\ versions' = left
            /\ templates' = gone
            /\ deleted' = deleted \cup {req[p].tid}
            /\ Respond(p, Reply(p, 204, ""))
    /\ UNCHANGED <<nextTemplateId, nextVersionId, requests,
                   users, nextUserId>>

\* -------------------------------------------------------------- add_version
add_version_lookup(p) ==
    /\ VersionIdLeft
    /\ \E user \in Users, tid \in TemplateIds :
         Lookup(p, Arrive(p, "add_version", user, tid), "add_latest")
    /\ UNCHANGED <<templates, versions, nextTemplateId, nextVersionId, deleted,
                   users, nextUserId>>

\* latest_version = ....order_by(version.desc()).first(); new_version_number
add_version_latest(p) ==
    /\ req[p].pc = "add_latest"
    /\ req' = [req EXCEPT ![p].pc = "add_commit",
                          ![p].number = new_version_number(latest_versions(req[p].tid))]
    /\ UNCHANGED <<templates, versions, nextTemplateId, nextVersionId, resp, deleted, requests,
                   users, nextUserId>>

\* db.add(new_version); db.commit(); return {"version": new_version_number}
add_version_commit(p) ==
    /\ req[p].pc = "add_commit"
    /\ IF ForeignKeyOk(req[p].tid)
       THEN /\ \E data \in TemplateDataCreate :
                 versions' = insert_version(
                    TemplateVersion(nextVersionId, req[p].tid, req[p].number,
                                    vars_(data)))
            /\ nextVersionId' = nextVersionId + 1
            /\ Respond(p, [Reply(p, 201, "") EXCEPT !.version = req[p].number])
       ELSE /\ Respond(p, Reply(p, 500, "IntegrityError"))
            /\ UNCHANGED <<versions, nextVersionId>>
    /\ UNCHANGED <<templates, nextTemplateId, deleted, requests,
                   users, nextUserId>>

\* ------------------------------------------------------------ list_versions
list_versions_lookup(p) ==
    /\ \E user \in Users, tid \in TemplateIds :
         Lookup(p, Arrive(p, "list_versions", user, tid), "list_query")
    /\ UNCHANGED <<templates, versions, nextTemplateId, nextVersionId, deleted,
                   users, nextUserId>>

\* The orders .order_by(TemplateVersion.version).all() can return rows in:
\* ascending by version, rows with equal numbers in either order.
order_by_version(rows) ==
    {s \in [1..Cardinality(rows) -> rows] :
        /\ \A r \in rows : \E i \in DOMAIN s : s[i] = r
        /\ \A i \in DOMAIN s : \A j \in DOMAIN s : i < j => s[i].version <= s[j].version}

\* TemplateVersionResponse(id, version, created_at) of each row, in order.
TemplateVersionResponses(rows) ==
    [i \in DOMAIN rows |-> [id |-> rows[i].id, version |-> rows[i].version]]

\* return {"id": template_id, "versions": versions}
list_versions_query(p) ==
    /\ req[p].pc = "list_query"
    /\ \E found \in order_by_version(versions_of(req[p].tid)) :
         Respond(p, [Reply(p, 200, "") EXCEPT
                        !.versions = TemplateVersionResponses(found)])
    /\ UNCHANGED <<templates, versions, nextTemplateId, nextVersionId, deleted, requests,
                   users, nextUserId>>

\* ------------------------------------------------------------- get_versions
get_versions_lookup(p) ==
    /\ \E user \in Users, tid \in TemplateIds :
         Lookup(p, Arrive(p, "get_versions", user, tid), "get_version_query")
    /\ UNCHANGED <<templates, versions, nextTemplateId, nextVersionId, deleted,
                   users, nextUserId>>

\* Mutant of get_version: the template filter dropped.
get_version_by_id(template_id, version_id) ==
    {v \in versions : v.id = version_id}

\* .filter(TemplateVersion.template_id == template_id,
\*         TemplateVersion.id == version_id).first()
get_version(template_id, version_id) ==
    {v \in versions : v.template_id = template_id /\ v.id = version_id}

\* TemplateVersionDetailedResponse(id=template_version.id, ...): reading an
\* attribute of None raises AttributeError, which no handler catches.
get_versions_query(p) ==
    /\ req[p].pc = "get_version_query"
    /\ \E version_id \in VersionIds :
       LET template_version == get_version(req[p].tid, version_id) IN
       IF template_version = {}
       THEN Respond(p, [Reply(p, 500, "AttributeError") EXCEPT
                           !.version_id = version_id])
       ELSE LET v == CHOOSE v \in template_version : TRUE IN
            Respond(p, [Reply(p, 200, "") EXCEPT !.version_id = version_id,
                           !.vid = v.id, !.version = v.version, !.data = v.data])
    /\ UNCHANGED <<templates, versions, nextTemplateId, nextVersionId, deleted, requests,
                   users, nextUserId>>

\* ------------------------------------------------------------- get_template
get_template_lookup(p) ==
    /\ \E user \in Users, tid \in TemplateIds :
         Lookup(p, Arrive(p, "get_template", user, tid), "get_latest")
    /\ UNCHANGED <<templates, versions, nextTemplateId, nextVersionId, deleted,
                   users, nextUserId>>

\* .first() of a query: None (the empty set) or one of the rows it can
\* return first.
first(rows) == IF rows = {} THEN {{}} ELSE {{r} : r \in rows}

\* return {**template.__dict__, "latest_version": latest_version.__dict__}
\* None has no __dict__ (AttributeError); the response model TemplateResponse
\* wants sub_template_types to be a list.
get_template_latest(p) ==
    /\ req[p].pc = "get_latest"
    /\ \E latest_version \in first(latest_versions(req[p].tid)) :
         IF latest_version = {}
         THEN Respond(p, Reply(p, 500, "AttributeError"))
         ELSE IF \E t \in req[p].template : ~t.sub_template_types.some
         THEN Respond(p, Reply(p, 500, "ResponseValidationError"))
         ELSE LET v == CHOOSE v \in latest_version : TRUE IN
              Respond(p, [Reply(p, 200, "") EXCEPT !.template = req[p].template,
                             !.vid = v.id, !.version = v.version])
    /\ UNCHANGED <<templates, versions, nextTemplateId, nextVersionId, deleted,
                   requests,
                   users, nextUserId>>

\* ------------------------------------------------------------ get_templates
\* db.query(Template).filter(Template.user_id == current_user.id).all()
list_owned(user_id) == {t \in templates : t.user_id = user_id}

\* templates = ....all(); result = []; with no template the loop is skipped
\* and the empty list returned.
get_templates_query(p) ==
    /\ req[p].pc = "idle"
    /\ requests < MaxRequests
    /\ requests' = requests + 1
    /\ \E user \in Users :
         IF list_owned(user) = {}
         THEN /\ resp' = [resp EXCEPT ![p] =
                     [NoResp EXCEPT !.op = "get_templates", !.user = user,
                                    !.status = 200]]
              /\ req' = [req EXCEPT ![p] = Idle]
         ELSE /\ req' = [req EXCEPT ![p] =
                     [Idle EXCEPT !.op = "get_templates", !.pc = "get_templates_latest",
                                  !.user = user, !.rows = list_owned(user)]]
              /\ resp' = [resp EXCEPT ![p] = NoResp]
    /\ UNCHANGED <<templates, versions, nextTemplateId, nextVersionId, deleted,
                   users, nextUserId>>

\* TemplateResponse(id, name, sub_template_types, created_at, latest_version)
\* with latest_version a TemplateVersionResponse(id, version, created_at).
TemplateResponse(template, template_latest_version) ==
    [template |-> template, vid |-> template_latest_version.id,
     version |-> template_latest_version.version]

\* One iteration of `for template in templates`: the latest version is
\* queried and a TemplateResponse appended; after the last one the result is
\* returned.  TemplateResponse refuses latest_version=None and a
\* sub_template_types that is not a list (ValidationError, not caught).
get_templates_latest(p) ==
    /\ req[p].pc = "get_templates_latest"
    /\ \E template \in req[p].rows :
       \E template_latest_version \in first(latest_versions(template.id)) :
         IF template_latest_version = {} \/ ~template.sub_template_types.some
         THEN Respond(p, [NoResp EXCEPT !.op = "get_templates",
                             !.user = req[p].user, !.status = 500,
                             !.detail = "ValidationError"])
         ELSE LET v == CHOOSE v \in template_latest_version : TRUE
                  result == req[p].result \cup {TemplateResponse(template, v)} IN
              IF req[p].rows = {template}
              THEN Respond(p, [NoResp EXCEPT !.op = "get_templates",
                                  !.user = req[p].user, !.status = 200,
                                  !.result = result])
              ELSE /\ req' = [req EXCEPT ![p].rows = req[p].rows \ {template},
                                         ![p].result = result]
                   /\ UNCHANGED resp
    /\ UNCHANGED <<templates, versions, nextTemplateId, nextVersionId, deleted,
                   requests, users, nextUserId>>

\* ---------------------------------------------------------- update_metadata
update_metadata_lookup(p) ==
    /\ \E user \in Users, tid \in TemplateIds :
         Lookup(p, Arrive(p, "update_metadata", user, tid), "update_commit")
    /\ UNCHANGED <<templates, versions, nextTemplateId, nextVersionId, deleted,
                   users, nextUserId>>

\* The attributes of a loaded Template the handler can set, as Python values.
attributes(template) ==
    [name |-> Some(template.name), sub_template_types |-> template.sub_template_types]

\* vars(updates).items(): every declared field of TemplateUpdate with its
\* value, None for a field the request body left out.
items(updates) == DOMAIN updates

\* for field, value in vars(updates).items(): setattr(template, field, value)
setattrs(template, updates) ==
    [field \in DOMAIN attributes(template) |->
        IF field \in items(updates) THEN updates[field]
        ELSE attributes(template)[field]]

\* Mutant of update_row: the UPDATE without its WHERE clause.
update_every_row(loaded, new) ==
    { [t EXCEPT
         !.name = IF new.name # attributes(loaded).name
                  THEN new.name.val ELSE t.name,
         !.sub_template_types =
             IF new.sub_template_types # loaded.sub_template_types
             THEN new.sub_template_types ELSE t.sub_template_types] :
      t \in templates }

\* The table after UPDATE templates SET <the attributes that changed> WHERE
\* templates.id = <the id of the loaded row>.
update_row(loaded, new) ==
    { IF t.id = loaded.id
      THEN [t EXCEPT
              !.name = IF new.name # attributes(loaded).name
                       THEN new.name.val ELSE t.name,
              !.sub_template_types =
                  IF new.sub_template_types # loaded.sub_template_types
                  THEN new.sub_template_types ELSE t.sub_template_types]
      ELSE t :
      t \in templates }

\* db.commit(); db.refresh(template); return template
\* The UPDATE sets the columns whose attribute changed.  It fails when the row
\* is gone (StaleDataError) and when name, which is NOT NULL, is set to None
\* (IntegrityError); None in the JSONB column is stored as the JSON null.
update_metadata_commit(p) ==
    /\ req[p].pc = "update_commit"
    /\ \E updates \in TemplateUpdate :
       LET loaded == CHOOSE t \in req[p].template : TRUE
           new == setattrs(loaded, updates)
           stored == {t \in templates : t.id = req[p].tid} IN
       IF stored = {}
       THEN /\ Respond(p, [Reply(p, 500, "StaleDataError") EXCEPT !.updates = updates])
            /\ UNCHANGED templates
       ELSE IF ~new.name.some
       THEN /\ Respond(p, [Reply(p, 500, "IntegrityError") EXCEPT !.updates = updates])
            /\ UNCHANGED templates
       ELSE /\ templates' = update_row(loaded, new)
            /\ Respond(p, [Reply(p, 200, "") EXCEPT
                              !.template = {t \in update_row(loaded, new) :
                                              t.id = req[p].tid},
                              !.updates = updates])
    /\ UNCHANGED <<versions, nextTemplateId, nextVersionId, deleted, requests,
                   users, nextUserId>>

Step(p) ==
    \/ create_template_commit(p)
    \/ create_template_version(p)
    \/ delete_template_lookup(p)
    \/ delete_template_query(p)
    \/ delete_template_commit(p)
    \/ add_version_lookup(p)
    \/ add_version_latest(p)
    \/ add_version_commit(p)
    \/ list_versions_lookup(p)
    \/ list_versions_query(p)
    \/ get_versions_lookup(p)
    \/ get_versions_query(p)
    \/ get_template_lookup(p)
    \/ get_template_latest(p)
    \/ update_metadata_lookup(p)
    \/ update_metadata_commit(p)
    \/ get_templates_query(p)
    \/ get_templates_latest(p)

Next == \E p \in Clients : Step(p)

Spec == Init /\ [][Next]_vars

\* Requests served one after the other: a step is taken only while no other
\* worker has a request in flight.
Alone(p) == \A q \in Clients \ {p} : req[q].pc = "idle"

SeqNext ==
    \E p \in Clients :
        \/ Alone(p) /\ create_template_commit(p)
        \/ Alone(p) /\ create_template_version(p)
        \/ Alone(p) /\ delete_template_lookup(p)
        \/ Alone(p) /\ delete_template_query(p)
        \/ Alone(p) /\ delete_template_commit(p)
        \/ Alone(p) /\ add_version_lookup(p)
        \/ Alone(p) /\ add_version_latest(p)
        \/ Alone(p) /\ add_version_commit(p)
        \/ Alone(p) /\ list_versions_lookup(p)
        \/ Alone(p) /\ list_versions_query(p)
        \/ Alone(p) /\ get_versions_lookup(p)
        \/ Alone(p) /\ get_versions_query(p)
        \/ Alone(p) /\ get_template_lookup(p)
        \/ Alone(p) /\ get_template_latest(p)
        \/ Alone(p) /\ update_metadata_lookup(p)
        \/ Alone(p) /\ update_metadata_commit(p)
        \/ Alone(p) /\ get_templates_query(p)
        \/ Alone(p) /\ get_templates_latest(p)

SeqSpec == Init /\ [][SeqNext]_vars

\* ------------------------------------------------------------ register_user
\* (src/app/auth/routes.py)  The handler reads and writes table "users" only,
\* and no template handler touches that table, so its interleavings are
\* explored in a specification of their own.
Usernames == {"alice", "bob"}
Passwords == {"pw1", "pw2"}

\* A User row; hashed_password is kept as an opaque value of the password.
User(id, username, hashed_password) ==
    [id |-> id, username |-> username, hashed_password |-> hashed_password]

\* Mutant of UniqueOk: the column declared without unique=True.
UniqueAbsent(username) == TRUE

\* username = Column(String, unique=True, ...): PostgreSQL refuses an insert
\* whose username is already stored.
UniqueOk(username) == \A u \in users : u.username # username

\* existing_user = db.query(User).filter(User.username == ...).first();
\* if existing_user: raise HTTPException(400, "Username already registered")
register_user_check(p) ==
    /\ req[p].pc = "idle"
    /\ requests < MaxRequests
    /\ requests' = requests + 1
    /\ \E username \in Usernames :
         LET existing_user == {u \in users : u.username = username} IN
         IF existing_user # {}
         THEN /\ resp' = [resp EXCEPT ![p] =
                     [NoResp EXCEPT !.op = "register_user", !.user = username,
                                    !.status = 400,
                                    !.detail = "Username already registered",
                                    !.cause = "taken"]]
              /\ req' = [req EXCEPT ![p] = Idle]
         ELSE /\ req' = [req EXCEPT ![p] =
                     [Idle EXCEPT !.op = "register_user", !.pc = "register_commit",
                                  !.user = username, !.cause = "free"]]
              /\ resp' = [resp EXCEPT ![p] = NoResp]
    /\ UNCHANGED <<templates, versions, nextTemplateId, nextVersionId, deleted,
                   users, nextUserId>>

\* new_user = User(username, hashed_password); db.add(new_user); db.commit();
\* db.refresh(new_user); return {"username", "message"}
\* The IntegrityError of a refused insert is not caught.
register_user_commit(p) ==
    /\ req[p].pc = "register_commit"
    /\ IF UniqueOk(req[p].user)
       THEN /\ \E password \in Passwords :
                 users' = users \cup
                    {User(nextUserId, req[p].user, <<"hash", password>>)}
            /\ nextUserId' = nextUserId + 1
            /\ Respond(p, [NoResp EXCEPT !.op = "register_user",
                              !.user = req[p].user, !.status = 201,
                              !.detail = "User created successfully",
                              !.cause = req[p].cause])
       ELSE /\ Respond(p, [NoResp EXCEPT !.op = "register_user",
                              !.user = req[p].user, !.status = 500,
                              !.detail = "IntegrityError",
                              !.cause = req[p].cause])
            /\ UNCHANGED <<users, nextUserId>>
    /\ UNCHANGED <<templates, versions, nextTemplateId, nextVersionId, deleted,
                   requests>>

UserNext ==
    \E p \in Clients :
        \/ register_user_check(p)
        \/ register_user_commit(p)

UserSpec == Init /\ [][UserNext]_vars

\* ------------------------------------------------------------------ claims
\* What the caller sees of a response.
Outcome(r) ==
    [status |-> r.status, detail |-> r.detail, vid |-> r.vid,
     version |-> r.version, versions |-> r.versions, data |-> r.data,
     template |-> r.template]

LookupOps ==
    {"get_template", "delete_template", "add_version", "list_versions",
     "get_versions", "update_metadata"}

\* C1: in every reachable state the version numbers stored for each existing
\* template are exactly 1..k for some k >= 1, without gaps or duplicates.
C1_VersionNumbersContiguous ==
    \A t \in templates :
        LET rows == versions_of(t.id) IN
        \E k \in 1..MaxVersionRows :
            /\ {v.version : v \in rows} = 1..k
            /\ Cardinality(rows) = k

\* C2: add_version requests for the same template that succeed return
\* distinct version numbers: no two of them store and return the same one.
C2_ConcurrentAddsDistinct ==
    \A p \in Clients : \A q \in Clients \ {p} :
        ( /\ resp[p].op = "add_version" /\ resp[p].status = 201
          /\ resp[q].op = "add_version" /\ resp[q].status = 201
          /\ resp[p].tid = resp[q].tid )
        => resp[p].version # resp[q].version

\* C3: template creation is atomic: no committed state holds a template
\* that has no version.
C3_NoVersionlessTemplate ==
    \A t \in templates : versions_of(t.id) # {}

\* C4: no orphan versions: every stored version row references a template
\* row that exists, also when delete_template interleaves with an add_version
\* that has passed its ownership check.
C4_NoOrphanVersions ==
    \A v \in versions : \E t \in templates : t.id = v.template_id

\* An add_version passed its ownership check, the template was deleted, and
\* the insert was refused.
C4_Witness ==
    \E p \in Clients :
        /\ resp[p].op = "add_version"
        /\ resp[p].cause = "owned"
        /\ resp[p].status = 500
        /\ resp[p].tid \in deleted

\* C5: for each operation that names a template, a request naming a template
\* of another user gets exactly the outcome of one naming a template that
\* does not exist: 404 "Template not found", and the handler goes no further.
C5_NotOwnedSameAsMissing ==
    /\ \A p \in Clients :
          resp[p].cause \in {"missing", "foreign"} =>
             /\ resp[p].op \in LookupOps
             /\ Outcome(resp[p]) =
                   Outcome([NoResp EXCEPT !.status = 404,
                                          !.detail = "Template not found"])
    /\ \A p \in Clients : \A q \in Clients :
          ( /\ resp[p].op = resp[q].op
            /\ resp[p].cause = "foreign"
            /\ resp[q].cause = "missing" )
          => Outcome(resp[p]) = Outcome(resp[q])
    /\ \A p \in Clients :
          req[p].op \in LookupOps => req[p].cause = "owned"

\* The same operation answered once for another user's template, which holds
\* a version, and once for an id that does not exist.
C5_Witness ==
    \E p \in Clients : \E q \in Clients :
        /\ resp[p].op = resp[q].op
        /\ resp[p].cause = "foreign"
        /\ resp[q].cause = "missing"
        /\ \E t \in templates : versions_of(t.id) # {}

OnlyName(u) == u.name.some /\ ~u.sub_template_types.some
OnlySubTypes(u) == ~u.name.some /\ u.sub_template_types.some

\* C6: update_metadata applies only the fields supplied: an update supplying
\* only name leaves sub_template_types as it was, and one supplying only
\* sub_template_types leaves name as it was.
C6_UpdateAppliesOnlySupplied ==
    \A p \in Clients :
        (resp[p].op = "update_metadata" /\ resp[p].status = 200) =>
            \A old \in resp[p].before : \A new \in resp[p].template :
                /\ OnlyName(resp[p].updates) =>
                      new.sub_template_types = old.sub_template_types
                /\ OnlySubTypes(resp[p].updates) => new.name = old.name

\* C7: once delete_template has succeeded for a template, none of its
\* versions remains stored, and every list_versions or get_versions request
\* that arrives later and names it is answered 404.
C7_DeletedStaysGone ==
    /\ \A tid \in deleted :
          /\ versions_of(tid) = {}
          /\ \A t \in templates : t.id # tid
    /\ \A p \in Clients :
          ( /\ resp[p].op \in {"list_versions", "get_versions"}
            /\ resp[p].afterDelete )
          => (resp[p].status = 404 /\ resp[p].detail = "Template not found")

\* A list_versions or get_versions answered for a template deleted before
\* the request arrived, the template having had a version.
C7_Witness ==
    \E p \in Clients :
        /\ resp[p].op \in {"list_versions", "get_versions"}
        /\ resp[p].afterDelete
        /\ nextVersionId > 1

\* C8: get_versions by the owner of an existing template, with a version id
\* not stored for that template, is answered with a not-found error.
C8_MissingVersionIsNotFound ==
    \A p \in Clients :
        ( /\ resp[p].op = "get_versions"
          /\ resp[p].cause = "owned"
          /\ resp[p].vid = 0 )
        => resp[p].status = 404

\* C9: versions are immutable: a stored version row stays as it is for as
\* long as its template exists, and get_versions returns the number and the
\* payload stored under the version id.
C9_VersionsImmutable ==
    /\ [][ /\ \A v \in versions :
                (\E t \in templates' : t.id = v.template_id) => v \in versions'
           /\ \A v \in versions : \A w \in versions' : w.id = v.id => w = v
         ]_vars
    /\ [](\A p \in Clients :
            ( /\ resp[p].op = "get_versions"
              /\ resp[p].status = 200
              /\ \E t \in templates : t.id = resp[p].tid )
            => \E v \in versions :
                  /\ v.id = resp[p].vid
                  /\ v.template_id = resp[p].tid
                  /\ v.version = resp[p].version
                  /\ v.data = resp[p].data)

\* get_versions returned version 1 of a template that has a version 2.
C9_Witness ==
    \E p \in Clients :
        /\ resp[p].op = "get_versions"
        /\ resp[p].status = 200
        /\ resp[p].version = 1
        /\ \E v \in versions_of(resp[p].tid) : v.version = 2

MaxVersion(rows) ==
    IF rows = {} THEN 0
    ELSE CHOOSE n \in {v.version : v \in rows} : \A v \in rows : v.version <= n

Answers(p, op, status) ==
    /\ resp'[p] # resp[p]
    /\ resp'[p].op = op
    /\ resp'[p].status = status

\* C10: with requests served one after the other, create_template returns
\* version 1 and stores exactly one version, numbered 1; add_version stores
\* and returns the template's highest version number plus one; list_versions
\* returns the template's versions in ascending order of version number.
C10_SequentialNumbering ==
    [][\A p \in Clients :
         /\ Answers(p, "create_template", 201) =>
               /\ resp'[p].version = 1
               /\ \E v \in versions' :
                     /\ v.version = 1
                     /\ {w \in versions' : w.template_id = resp'[p].tid} = {v}
         /\ Answers(p, "add_version", 201) =>
               /\ resp'[p].version = MaxVersion(versions_of(resp'[p].tid)) + 1
               /\ \E v \in versions' :
                     /\ v.version = resp'[p].version
                     /\ v.template_id = resp'[p].tid
                     /\ versions' \ versions = {v}
         /\ Answers(p, "list_versions", 200) =>
               LET listed == resp'[p].versions IN
               /\ \A i \in DOMAIN listed : \A j \in DOMAIN listed :
                     i < j => listed[i].version < listed[j].version
               /\ {listed[i] : i \in DOMAIN listed} =
                     {[id |-> v.id, version |-> v.version] :
                        v \in versions_of(resp'[p].tid)}
      ]_vars

\* list_versions answered [1, 2] after a create_template and an add_version.
C10_Witness ==
    \E p \in Clients :
        /\ resp[p].op = "list_versions"
        /\ resp[p].status = 200
        /\ Len(resp[p].versions) = 2
        /\ resp[p].versions[1].version = 1
        /\ resp[p].versions[2].version = 2

\* C11: version lookup is scoped to the template: get_versions(T, v) never
\* returns the payload of a version v stored under a template other than T,
\* whoever owns that other template.
C11_VersionLookupScoped ==
    [][\A p \in Clients :
         ( /\ resp'[p] # resp[p]
           /\ resp'[p].op = "get_versions"
           /\ \E v \in versions :
                 /\ v.id = resp'[p].version_id
                 /\ v.template_id # resp'[p].tid )
         => /\ resp'[p].status # 200
            /\ resp'[p].vid = 0
            /\ resp'[p].data = NoData
      ]_vars

\* The owner of a template asked get_versions for a version id stored under
\* another template.
C11_Witness ==
    \E p \in Clients :
        /\ resp[p].op = "get_versions"
        /\ resp[p].cause = "owned"
        /\ \E v \in versions :
              /\ v.id = resp[p].version_id
              /\ v.template_id # resp[p].tid

\* C12: with requests served one after the other, get_templates for user U
\* returns exactly the templates U owns, each with the stored version of that
\* template that has the highest number attached as latest_version, and
\* get_template attaches that same version.
C12_ListOwnedWithLatest ==
    [][\A p \in Clients :
         /\ (resp'[p] # resp[p] /\ resp'[p].op = "get_templates") =>
               /\ resp'[p].status = 200
               /\ {r.template : r \in resp'[p].result} = list_owned(resp'[p].user)
               /\ Cardinality(resp'[p].result) =
                     Cardinality(list_owned(resp'[p].user))
               /\ \A r \in resp'[p].result :
                     \E v \in latest_versions(r.template.id) :
                         r.vid = v.id /\ r.version = v.version
         /\ Answers(p, "get_template", 200) =>
               \E v \in latest_versions(resp'[p].tid) :
                   resp'[p].vid = v.id /\ resp'[p].version = v.version
      ]_vars

\* C13: a template's id and owner never change after creation, and
\* update_metadata changes nothing but the name and sub_template_types of the
\* template it names: the stored versions and every other template stay as
\* they are.
C13_UpdateMetadataFrame ==
    [][ /\ \A t \in templates : \A u \in templates' :
              u.id = t.id => u.user_id = t.user_id
        /\ \A p \in Clients :
              ( /\ req[p].op = "update_metadata"
                /\ req'[p] # req[p] )
              => /\ versions' = versions
                 /\ {t.id : t \in templates'} = {t.id : t \in templates}
                 /\ \A t \in templates : t.id # req[p].tid => t \in templates'
        /\ \A p \in Clients :
              ( /\ req[p].pc = "idle"
                /\ \/ req'[p].op = "update_metadata"
                   \/ resp'[p] # resp[p] /\ resp'[p].op = "update_metadata" )
              => (versions' = versions /\ templates' = templates)
      ]_vars

\* update_metadata changed a template while another template, with a
\* version, was stored.
C13_Witness ==
    \E p \in Clients :
        /\ resp[p].op = "update_metadata"
        /\ resp[p].status = 200
        /\ resp[p].template # resp[p].before
        /\ \E t \in templates :
              t.id # resp[p].tid /\ versions_of(t.id) # {}

\* C14: get_template on a template the caller owns and that has no stored
\* version (the state between the two commits of create_template) handles
\* the absent latest version: it completes with a defined response and does
\* not fail on the missing version.
C14_GetTemplateHandlesNoVersion ==
    [][\A p \in Clients :
         ( /\ req[p].pc = "get_latest"
           /\ req'[p].pc = "idle"
           /\ get_owned(req[p].tid, req[p].user) # {}
           /\ versions_of(req[p].tid) = {} )
         => resp'[p].status < 500
      ]_vars

\* The user a step of client p acts for: the user of its request in flight,
\* or of the request that arrives with the step.
ActingUser(p) == IF req[p].pc # "idle" THEN req[p].user ELSE req'[p].user

\* C15: owner isolation of writes: no step of a request made by user U adds,
\* changes or removes a template owned by another user, or a version of such
\* a template.
C15_OwnerIsolationOfWrites ==
    [][\A p \in Clients :
         (req'[p] # req[p] \/ resp'[p] # resp[p]) =>
            /\ \A t \in templates :
                  t.user_id # ActingUser(p) =>
                     /\ t \in templates'
                     /\ \A v \in versions_of(t.id) : v \in versions'
            /\ \A t \in templates' \ templates : t.user_id = ActingUser(p)
            /\ \A v \in versions' \ versions :
                  \E t \in templates :
                      t.id = v.template_id /\ t.user_id = ActingUser(p)
      ]_vars

\* A write was asked on a template of another user, and every stored
\* template has a version.
C15_Witness ==
    \E p \in Clients :
        /\ resp[p].op \in {"delete_template", "add_version", "update_metadata"}
        /\ resp[p].cause = "foreign"
        /\ templates # {}
        /\ \A t \in templates : versions_of(t.id) # {}

\* C16: a request that ends with 404 "Template not found" leaves the stored
\* templates and versions exactly as they were before it.
C16_NotFoundChangesNothing ==
    [][ /\ \A p \in Clients :
              ( /\ resp'[p] # resp[p]
                /\ resp'[p].status = 404 )
              => /\ resp'[p].detail = "Template not found"
                 /\ req[p].pc = "idle"
                 /\ templates' = templates
                 /\ versions' = versions
        /\ (req' = req /\ resp' = resp) =>
              (templates' = templates /\ versions' = versions)
      ]_vars

\* delete_template was answered 404 while templates and versions were stored.
C16_Witness ==
    \E p \in Clients :
        /\ resp[p].op = "delete_template"
        /\ resp[p].status = 404
        /\ templates # {}
        /\ versions # {}

\* C17: usernames stay unique: under any interleaving of register_user
\* requests no two stored users have the same username, and a register_user
\* request for a username that is already committed is rejected with an
\* error and adds no user.
C17_UsernamesUnique ==
    /\ [](\A u \in users : \A w \in users : u.username = w.username => u = w)
    /\ [][ /\ users \subseteq users'
           /\ \A u \in users' \ users : \A w \in users : w.username # u.username
           /\ \A p \in Clients :
                 ( /\ resp'[p] # resp[p]
                   /\ resp'[p].op = "register_user"
                   /\ \E w \in users : w.username = resp'[p].user )
                 => (resp'[p].status >= 400 /\ users' = users)
         ]_vars

\* Two registrations of one username both passed the check; the second
\* insert was refused.
C17_Witness ==
    \E p \in Clients : \E q \in Clients \ {p} :
        /\ resp[p].op = "register_user" /\ resp[q].op = "register_user"
        /\ resp[p].user = resp[q].user
        /\ resp[p].cause = "free" /\ resp[q].cause = "free"
        /\ resp[p].status = 201
        /\ resp[q].status = 500
====
